---------------------------- MODULE Spec2Model ----------------------------
(***************************************************************************)
(* Model of the two repository-hygiene scripts:                            *)
(*   scripts/loc_report.py        comment-aware LOC audit with a threshold *)
(*   scripts/refine_candidates.py change-frequency table from git history  *)
(* Text is modelled as sequences of one-character strings, so that the     *)
(* scanner's two-character lookahead, str.strip(), Path.parts and          *)
(* Path.suffix are computed the way the code computes them.                *)
(* A run executes one of the two scripts, or a single call of count_loc on *)
(* one file (variable tool); the lone call is given longer files than the  *)
(* files of a whole loc_report run.                                        *)
(* Not modelled: the progress lines loc_report prints to stdout (gated by  *)
(* --quiet); they do not influence counting, violations or exit status.    *)
(***************************************************************************)
EXTENDS Integers, Sequences, FiniteSets

\* ------------------------------------------------------------------ bounds
MaxFileChars == 8   \* characters of the file a lone count_loc call reads
MaxRunFileChars == 3 \* characters of each file of a loc_report run
MaxFiles == 2       \* files found by gather_source_files
MaxThreshold == 1   \* --threshold is drawn from 0..MaxThreshold
MaxHistory == 4     \* lines of git log output

\* The characters a line is made of: the two marker characters, ordinary
\* code and whitespace.
Chars == {"/", "*", "a", " "}

VARIABLES
    tool,             \* what runs: a script, or count_loc on its own
    pc,               \* position in the caller of count_loc / in main
    threshold,        \* args.threshold
    all_files,        \* loc_report main: the files found, in discovery order
    file_idx,         \* loc_report main: how many files the loop has taken
    content,          \* count_loc: the lines read from f so far
    loc,              \* count_loc: local loc
    in_comment_block, \* count_loc: local in_comment_block
    locs,             \* history: the values count_loc returned to main
    end_flags,        \* history: in_comment_block when each call ended
    violating_files,  \* loc_report main
    stderr,           \* loc_report: what was printed to sys.stderr
    exit_status,      \* loc_report: sys.exit argument, -1 while running
    modified_files,   \* refine_candidates main: all_files
    touch_counts,     \* refine_candidates main: Counter, in insertion order
    hot_files,        \* refine_candidates main
    stdout            \* refine_candidates: what was printed

vars == <<tool, pc, threshold, all_files, file_idx, content, loc,
          in_comment_block, locs, end_flags, violating_files, stderr,
          exit_status, modified_files, touch_counts, hot_files, stdout>>

locVars == <<all_files, file_idx, content, loc, in_comment_block, locs,
             end_flags, violating_files, stderr, exit_status>>

refineVars == <<modified_files, touch_counts, hot_files, stdout>>

\* ------------------------------------------------------------ text helpers
IsSpace(c) == c = " "

RECURSIVE LStrip(_)
LStrip(s) == IF s = <<>> THEN s
             ELSE IF IsSpace(s[1]) THEN LStrip(Tail(s)) ELSE s

RECURSIVE RStrip(_)
RStrip(s) == IF s = <<>> THEN s
             ELSE IF IsSpace(s[Len(s)]) THEN RStrip(SubSeq(s, 1, Len(s) - 1))
             ELSE s

Last(q) == q[Len(q)]

\* str.strip()
Strip(s) == RStrip(LStrip(s))

\* s[i:i+2] with i counted from 1: at most two characters, fewer at the end.
Slice2(s, i) == SubSeq(s, i, IF i + 1 <= Len(s) THEN i + 1 ELSE Len(s))

\* ------------------------------------------------- loc_report: count_loc
RECURSIVE Scan(_, _, _, _)

IsBlockCloseOneChar(s, i) == s[i] = "*"

\* line 47: line_content[i:i+2] == '*/'
IsBlockClose(s, i) == Slice2(s, i) = <<"*", "/">>

IsLineCommentOneChar(s, i) == s[i] = "/"

\* line 54: line_content[i:i+2] == '//'
IsLineComment(s, i) == Slice2(s, i) = <<"/", "/">>

\* line 57: line_content[i:i+2] == '/*'
IsBlockOpen(s, i) == Slice2(s, i) = <<"/", "*">>

BlockCloseDropsRest(s, i, eff) == [flag |-> FALSE, eff |-> eff]

\* lines 48-49, 52: the closer is consumed and the scan goes on, outside.
BlockCloseAt(s, i, eff) == Scan(s, i + 2, FALSE, eff)

LineCommentSkipsMarker(s, i, flag, eff) == Scan(s, i + 2, flag, eff)

\* line 55: break; the rest of the line is never looked at.
LineCommentAt(s, i, flag, eff) == [flag |-> flag, eff |-> eff]

\* lines 45-63: the while loop over line_content, from position i.
Scan(s, i, flag, eff) ==
    IF i > Len(s) THEN [flag |-> flag, eff |-> eff]
    ELSE IF flag
         THEN IF IsBlockClose(s, i) THEN BlockCloseAt(s, i, eff)
              ELSE Scan(s, i + 1, flag, eff)
    ELSE IF IsLineComment(s, i) THEN LineCommentAt(s, i, flag, eff)
    ELSE IF IsBlockOpen(s, i) THEN Scan(s, i + 2, TRUE, eff)
    ELSE Scan(s, i + 1, flag, Append(eff, s[i]))

\* lines 37-66: the body of the for loop, for one physical line.
ProcessLine(line, n, flag) ==
    LET line_content == Strip(line) IN
    IF line_content = <<>> THEN [loc |-> n, flag |-> flag]
    ELSE LET r == Scan(line_content, 1, flag, <<>>) IN
         [loc  |-> IF Strip(r.eff) # <<>> THEN n + 1 ELSE n,
          flag |-> r.flag]

\* lines 36-66: the for loop over a whole file, from a given scan state.
RECURSIVE ScanLines(_, _, _)
ScanLines(ls, n, flag) ==
    IF ls = <<>> THEN [loc |-> n, flag |-> flag]
    ELSE LET r == ProcessLine(Head(ls), n, flag) IN
         ScanLines(Tail(ls), r.loc, r.flag)

LeakedCommentBlock == in_comment_block

\* line 33: in_comment_block = False
InitialCommentBlock == FALSE

ErrorKeepsCount == loc

\* line 69: return 0
IOErrorResult == 0

ViolatesInclusive(n, limit) == n >= limit

\* line 126: loc > args.threshold
Violates(n, limit) == n > limit

\* -------------------------------------------------- sorting (both scripts)
\* list.sort / sorted with key = the count and reverse=True.  Python's sort
\* is stable and stays stable under reverse=True: records with equal keys
\* keep their input order.  Records are <<path, count>>.
RECURSIVE InsertDesc(_, _)
InsertDesc(s, x) ==
    IF s = <<>> THEN <<x>>
    ELSE IF s[1][2] >= x[2] THEN <<s[1]>> \o InsertDesc(Tail(s), x)
    ELSE <<x>> \o s

RECURSIVE InsertDescBeforeTies(_, _)
InsertDescBeforeTies(s, x) ==
    IF s = <<>> THEN <<x>>
    ELSE IF s[1][2] > x[2] THEN <<s[1]>> \o InsertDescBeforeTies(Tail(s), x)
    ELSE <<x>> \o s

RECURSIVE SortDescFrom(_, _)
SortDescFrom(done, rest) ==
    IF rest = <<>> THEN done
    ELSE SortDescFrom(InsertDesc(done, Head(rest)), Tail(rest))

RECURSIVE SortUnstableFrom(_, _)
SortUnstableFrom(done, rest) ==
    IF rest = <<>> THEN done
    ELSE SortUnstableFrom(InsertDescBeforeTies(done, Head(rest)), Tail(rest))

SortDescUnstable(s) == SortUnstableFrom(<<>>, s)

SortDesc(s) == SortDescFrom(<<>>, s)


\* ---------------------------------------------------- string literals
\* ".cpp"
EXT_CPP == <<".", "c", "p", "p">>

\* ".h"
EXT_H == <<".", "h">>

\* ".c"
EXT_C == <<".", "c">>

\* ".cc"
EXT_CC == <<".", "c", "c">>

\* ".hpp"
EXT_HPP == <<".", "h", "p", "p">>

\* "extern"
DIR_EXTERN == <<"e", "x", "t", "e", "r", "n">>

\* "build"
DIR_BUILD == <<"b", "u", "i", "l", "d">>

\* ".git"
DIR_GIT == <<".", "g", "i", "t">>

\* "resources"
DIR_RESOURCES ==
    <<"r", "e", "s", "o", "u", "r", "c", "e", "s">>

\* "a.cpp"
P_A_CPP == <<"a", ".", "c", "p", "p">>

\* "b.h"
P_B_H == <<"b", ".", "h">>

\* "c.c"
P_C_C == <<"c", ".", "c">>

\* "z.py"
P_Z_PY == <<"z", ".", "p", "y">>

\* "build/a.cpp"
P_BUILD_A_CPP ==
    <<"b", "u", "i", "l", "d", "/", "a", ".", "c", "p", "p">>

\* "resources/b.h"
P_RESOURCES_B_H ==
    <<"r", "e", "s", "o", "u", "r", "c", "e", "s", "/", "b", ".", "h">>


\* ------------------------------------------------------- path helpers
\* str.split on "/" : the components of a path string, empty ones included.
RECURSIVE SplitFrom(_, _, _)
SplitFrom(s, cur, acc) ==
    IF s = <<>> THEN Append(acc, cur)
    ELSE IF Head(s) = "/" THEN SplitFrom(Tail(s), <<>>, Append(acc, cur))
    ELSE SplitFrom(Tail(s), Append(cur, Head(s)), acc)

\* Path(s).parts for a relative path: empty and "." components are dropped.
Parts(s) == SelectSeq(SplitFrom(s, <<>>, <<>>),
                      LAMBDA c : c # <<>> /\ c # <<".">>)

\* Path.name: the final component, '' when there is none.
Name(parts) == IF parts = <<>> THEN <<>> ELSE parts[Len(parts)]

\* str.rfind('.') counted from 1; 0 when there is no dot.
RECURSIVE LastDot(_, _)
LastDot(name, i) == IF i = 0 THEN 0
                    ELSE IF name[i] = "." THEN i ELSE LastDot(name, i - 1)

\* Path.suffix: from the last dot on, unless the name starts or ends with it.
Suffix(name) ==
    LET i == LastDot(name, Len(name)) IN
    IF i > 1 /\ i < Len(name) THEN SubSeq(name, i, Len(name)) ELSE <<>>

\* --------------------------------------- loc_report: gather_source_files
\* loc_report.py line 16
LOC_SOURCE_EXTENSIONS == {EXT_CPP, EXT_H}

\* loc_report.py line 19
LOC_EXCLUDE_DIRS == {DIR_EXTERN, DIR_BUILD, DIR_GIT, DIR_RESOURCES}

\* lines 80-82: os.walk reaches the directory holding the file only if no
\* directory on the way down was pruned.
WalkReaches(parts) ==
    \A k \in 1..(Len(parts) - 1) : parts[k] \notin LOC_EXCLUDE_DIRS

\* lines 73-89, for a tree given as the set of its files' relative paths
\* (each a sequence of components).
gather_source_files(tree) ==
    {p \in tree : /\ p # <<>>
                  /\ WalkReaches(p)
                  /\ Suffix(Name(p)) \in LOC_SOURCE_EXTENSIONS}

\* ------------------------------------------------- refine_candidates
\* refine_candidates.py line 19
REFINE_SOURCE_EXTENSIONS == {EXT_CPP, EXT_C, EXT_CC, EXT_H, EXT_HPP}

\* refine_candidates.py line 22
REFINE_EXCLUDE_DIRS == {DIR_EXTERN, DIR_BUILD}

\* lines 41-58
is_project_source_file(file_path_str) ==
    IF Strip(file_path_str) = <<>> THEN FALSE
    ELSE LET parts == Parts(file_path_str) IN
         IF Suffix(Name(parts)) \notin REFINE_SOURCE_EXTENSIONS THEN FALSE
         ELSE IF \E k \in 1..Len(parts) : parts[k] \in REFINE_EXCLUDE_DIRS
              THEN FALSE
         ELSE TRUE

\* Counter.update for one element: dicts keep insertion order, so the
\* Counter is a sequence of <<file, count>> in order of first occurrence.
CounterAdd(tc, f) ==
    IF \E k \in 1..Len(tc) : tc[k][1] = f
    THEN [k \in 1..Len(tc) |->
             IF tc[k][1] = f THEN <<f, tc[k][2] + 1>> ELSE tc[k]]
    ELSE Append(tc, <<f, 1>>)

\* line 82: Counter(project_files)
RECURSIVE CounterFrom(_, _)
CounterFrom(tc, fs) ==
    IF fs = <<>> THEN tc ELSE CounterFrom(CounterAdd(tc, Head(fs)), Tail(fs))

IsHotInclusive(count, limit) == count >= limit

\* line 86: count > args.threshold
IsHot(count, limit) == count > limit

\* The path strings a git log line can be: the empty line that separates
\* commits, source files, a non-source file, files under excluded
\* directories.
PathStrings == {<<>>, P_A_CPP, P_B_H, P_C_C, P_Z_PY, P_BUILD_A_CPP,
                P_RESOURCES_B_H}

Histories == UNION {[1..n -> PathStrings] : n \in 0..MaxHistory}

\* ------------------------------------------------------------------ Init
\* The state once main has parsed its arguments (and, for loc_report, once
\* gather_source_files has returned: files are named by their position in
\* all_files, which is their discovery order).  A lone count_loc call is a
\* caller with one file to pass and no use for the result.
Init ==
    /\ tool \in {"count_loc", "loc_report", "refine_candidates"}
    /\ threshold \in IF tool = "count_loc" THEN {0} ELSE 0..MaxThreshold
    /\ all_files \in
          IF tool = "count_loc" THEN {<<1>>}
          ELSE IF tool = "loc_report"
               THEN {[k \in 1..n |-> k] : n \in 0..MaxFiles}
          ELSE {<<>>}
    /\ pc = IF tool = "refine_candidates" THEN "git" ELSE "loop"
    /\ file_idx = 0
    /\ content = <<>>
    /\ loc = 0
    /\ in_comment_block = FALSE
    /\ locs = <<>>
    /\ end_flags = <<>>
    /\ violating_files = <<>>
    /\ stderr = <<>>
    /\ exit_status = -1
    /\ modified_files = <<>>
    /\ touch_counts = <<>>
    /\ hot_files = <<>>
    /\ stdout = <<>>

\* ----------------------------------------------------- loc_report actions
\* The size of the text of the file being read: every line with its
\* terminator.
RECURSIVE Cost(_)
Cost(ls) == IF ls = <<>> THEN 0 ELSE Len(Head(ls)) + 1 + Cost(Tail(ls))

\* How long the text of a file may be (its last line may lack a terminator).
FileBudget == IF tool = "count_loc" THEN MaxFileChars ELSE MaxRunFileChars

\* loc_report.py lines 119-120, 32-33: the loop takes the next file and
\* calls count_loc, whose locals are fresh.
CallCountLoc ==
    /\ tool \in {"count_loc", "loc_report"} /\ pc = "loop"
    /\ file_idx < Len(all_files)
    /\ file_idx' = file_idx + 1
    /\ loc' = 0
    /\ in_comment_block' = InitialCommentBlock
    /\ content' = <<>>
    /\ pc' = "read"
    /\ UNCHANGED <<tool, threshold, all_files, locs, end_flags,
                   violating_files, stderr, exit_status, refineVars>>

\* lines 36-66: the file yields one more line and the loop body runs on it.
ReadLine ==
    /\ tool \in {"count_loc", "loc_report"} /\ pc = "read"
    /\ \E n \in 0..(FileBudget - Cost(content)) :
          \E line \in [1..n -> Chars] :
             LET r == ProcessLine(line, loc, in_comment_block) IN
             /\ content' = Append(content, line)
             /\ loc' = r.loc
             /\ in_comment_block' = r.flag
    /\ UNCHANGED <<tool, pc, threshold, all_files, file_idx, locs,
                   end_flags, violating_files, stderr, exit_status,
                   refineVars>>

\* The with block closes f as count_loc returns n to its caller (its locals
\* are dead from then on and keep their last values until the next call sets
\* them).
Returns(n) ==
    /\ content' = <<>>
    /\ locs' = Append(locs, n)
    /\ end_flags' = Append(end_flags, in_comment_block)
    /\ pc' = "returned"

\* line 70: end of file, return loc.
EndOfFile ==
    /\ tool \in {"count_loc", "loc_report"} /\ pc = "read"
    /\ Returns(loc)
    /\ UNCHANGED <<tool, threshold, all_files, file_idx, loc,
                   in_comment_block, violating_files, stderr, exit_status,
                   refineVars>>

\* lines 67-69: open or a read raises IOError; the error is printed and 0 is
\* returned.
ReadFails ==
    /\ tool \in {"count_loc", "loc_report"} /\ pc = "read"
    /\ stderr' = Append(stderr, [kind |-> "read_error",
                                 path |-> all_files[file_idx], loc |-> 0])
    /\ Returns(IOErrorResult)
    /\ UNCHANGED <<tool, threshold, all_files, file_idx, loc,
                   in_comment_block, violating_files, exit_status,
                   refineVars>>

\* lines 120-127: main's loop body, with the value count_loc returned.
MainLoopBody ==
    /\ tool = "loc_report" /\ pc = "returned"
    /\ violating_files' =
          IF Violates(Last(locs), threshold)
          THEN Append(violating_files, <<all_files[file_idx], Last(locs)>>)
          ELSE violating_files
    /\ pc' = "loop"
    /\ UNCHANGED <<tool, threshold, all_files, file_idx, content, loc,
                   in_comment_block, locs, end_flags, stderr, exit_status,
                   refineVars>>

\* lines 129-134: the loop is over and there are violations.
ReportViolations ==
    /\ tool = "loc_report" /\ pc = "loop"
    /\ file_idx = Len(all_files)
    /\ violating_files # <<>>
    /\ violating_files' = SortDesc(violating_files)
    /\ stderr' = stderr \o
          [k \in 1..Len(violating_files) |->
              [kind |-> "violation",
               path |-> SortDesc(violating_files)[k][1],
               loc  |-> SortDesc(violating_files)[k][2]]]
    /\ exit_status' = 1
    /\ pc' = "exit"
    /\ UNCHANGED <<tool, threshold, all_files, file_idx, content,
                   loc, in_comment_block, locs, end_flags, refineVars>>

\* lines 135-138: the loop is over and there is no violation.
ReportSuccess ==
    /\ tool = "loc_report" /\ pc = "loop"
    /\ file_idx = Len(all_files)
    /\ violating_files = <<>>
    /\ exit_status' = 0
    /\ pc' = "exit"
    /\ UNCHANGED <<tool, threshold, all_files, file_idx, content,
                   loc, in_comment_block, locs, end_flags, violating_files,
                   stderr, refineVars>>

\* ----------------------------------------------- refine_candidates actions
Row(kind, file, count) == [kind |-> kind, file |-> file, count |-> count]

\* lines 76-87 with get_git_modified_files (lines 29-35) succeeding: the
\* log's lines are filtered, counted and compared with the threshold.
Tally(files) ==
    /\ modified_files' = files
    /\ touch_counts' =
          CounterFrom(<<>>, SelectSeq(files, is_project_source_file))
    /\ hot_files' = SelectSeq(touch_counts',
                              LAMBDA e : IsHot(e[2], threshold))
    /\ pc' = "report"

GitLogSucceeds ==
    /\ tool = "refine_candidates" /\ pc = "git"
    /\ \E h \in Histories : Tally(h)
    /\ UNCHANGED <<tool, threshold, locVars, stdout>>

\* lines 36-38: git is missing or exits non-zero; the error is printed and
\* the history is empty.  Then lines 79-87.
GitLogFails ==
    /\ tool = "refine_candidates" /\ pc = "git"
    /\ stdout' = Append(stdout, Row("git_error", <<>>, 0))
    /\ Tally(<<>>)
    /\ UNCHANGED <<tool, threshold, locVars>>

\* lines 89-91
ReportNoHotFiles ==
    /\ tool = "refine_candidates" /\ pc = "report"
    /\ hot_files = <<>>
    /\ stdout' = Append(stdout, Row("none", <<>>, 0))
    /\ pc' = "done"
    /\ UNCHANGED <<tool, threshold, locVars, modified_files, touch_counts,
                   hot_files>>

\* lines 93-100
ReportTable ==
    /\ tool = "refine_candidates" /\ pc = "report"
    /\ hot_files # <<>>
    /\ stdout' = stdout \o
          [k \in 1..Len(hot_files) |->
              Row("row", SortDesc(hot_files)[k][1], SortDesc(hot_files)[k][2])]
    /\ pc' = "done"
    /\ UNCHANGED <<tool, threshold, locVars, modified_files, touch_counts,
                   hot_files>>

Next ==
    \/ CallCountLoc
    \/ ReadLine
    \/ EndOfFile
    \/ ReadFails
    \/ MainLoopBody
    \/ ReportViolations
    \/ ReportSuccess
    \/ GitLogSucceeds
    \/ GitLogFails
    \/ ReportNoHotFiles
    \/ ReportTable

Spec == Init /\ [][Next]_vars

\* ============================================================== properties
\* Vocabulary of the claims, stated on the raw text and independently of the
\* scanner's own operators.
\* The two-character marker m occurs somewhere in s.
Occurs(m, s) == \E i \in 1..(Len(s) - 1) : s[i] = m[1] /\ s[i + 1] = m[2]

LINE_COMMENT == <<"/", "/">>
BLOCK_OPEN == <<"/", "*">>
BLOCK_CLOSE == <<"*", "/">>

HasMarker(s) ==
    Occurs(LINE_COMMENT, s) \/ Occurs(BLOCK_OPEN, s) \/ Occurs(BLOCK_CLOSE, s)

NoMarkers(ls) == \A k \in 1..Len(ls) : ~HasMarker(ls[k])

NonBlank(s) == \E i \in 1..Len(s) : s[i] # " "

NonBlankCount(ls) == Cardinality({k \in 1..Len(ls) : NonBlank(ls[k])})

\* The position of the first occurrence of marker m in s, 0 when there is none.
FirstAt(m, s) ==
    IF Occurs(m, s)
    THEN CHOOSE i \in 1..(Len(s) - 1) :
            /\ s[i] = m[1] /\ s[i + 1] = m[2]
            /\ \A j \in 1..(i - 1) : ~(s[j] = m[1] /\ s[j + 1] = m[2])
    ELSE 0

After(s, i) == SubSeq(s, i, Len(s))

\* Line k of ls opens a block comment with nothing but whitespace before the
\* opener, every earlier line is free of markers (so the opener is met outside
\* a comment), and no closer follows the opener on line k or on a later line.
OpensUnclosedAt(ls, k) ==
    /\ k \in 1..Len(ls)
    /\ Occurs(BLOCK_OPEN, ls[k])
    /\ LET i == FirstAt(BLOCK_OPEN, ls[k]) IN
       /\ ~NonBlank(SubSeq(ls[k], 1, i - 1))
       /\ ~Occurs(BLOCK_CLOSE, After(ls[k], i + 2))
    /\ \A j \in 1..(k - 1) : ~HasMarker(ls[j])
    /\ \A j \in (k + 1)..Len(ls) : ~Occurs(BLOCK_CLOSE, ls[j])

\* The line holds a closer, and what follows its first closer is ordinary
\* text: free of markers and not only whitespace.
ClosesWithCode(s) ==
    /\ Occurs(BLOCK_CLOSE, s)
    /\ LET i == FirstAt(BLOCK_CLOSE, s) IN
       /\ ~HasMarker(After(s, i + 2))
       /\ NonBlank(After(s, i + 2))

\* A step in which count_loc reads one more line.
ReadsLine == pc = "read" /\ pc' = "read"
             /\ Len(content') = Len(content) + 1

\* A step in which count_loc returns at end of file, without an IOError.
ReturnsAtEof == pc = "read" /\ pc' = "returned" /\ stderr' = stderr

\* A step in which count_loc returns through its except clause.
ReturnsOnError == pc = "read" /\ pc' = "returned" /\ stderr' # stderr

\* ---- C1
\* C1: while the lines read so far hold none of the markers //, /*, */, loc is
\* the number of lines that are non-empty once whitespace is stripped and
\* in_comment_block is false after every line; and at end of file count_loc
\* returns that number.
C1_NoMarkersCountsNonBlank ==
    [][ /\ (pc' = "read" /\ NoMarkers(content'))
            => (loc' = NonBlankCount(content') /\ in_comment_block' = FALSE)
        /\ (ReturnsAtEof /\ NoMarkers(content))
            => Last(locs') = NonBlankCount(content) ]_vars

\* A marker-free file of three lines: a whitespace-only one, and two counted
\* ones of which one holds a lone slash or star.
C1_Witness ==
    /\ tool = "count_loc" /\ pc = "read"
    /\ Len(content) = 3 /\ NoMarkers(content)
    /\ \E k \in 1..3 : content[k] # <<>> /\ ~NonBlank(content[k])
    /\ \E k \in 1..3 : \E i \in 1..Len(content[k]) : content[k][i] \in {"/", "*"}
    /\ loc = 2

\* ---- C2
\* C2: a line whose scan starts inside a block comment and that holds no */
\* adds nothing to loc, whatever else it holds, and leaves in_comment_block
\* true; so once a block comment is opened and never closed, loc stays what it
\* was before the opening line and in_comment_block stays true, to the end of
\* the file.
C2_InsideBlockCommentAddsNothing ==
    [][ /\ (ReadsLine /\ in_comment_block
               /\ ~Occurs(BLOCK_CLOSE, Last(content')))
            => (loc' = loc /\ in_comment_block' = TRUE)
        /\ \A k \in 1..Len(content') :
              (pc' = "read" /\ OpensUnclosedAt(content', k))
              => /\ loc' = NonBlankCount(SubSeq(content', 1, k - 1))
                 /\ in_comment_block' = TRUE
        /\ \A k \in 1..Len(content) :
              (ReturnsAtEof /\ OpensUnclosedAt(content, k))
              => Last(locs') = NonBlankCount(SubSeq(content, 1, k - 1)) ]_vars

\* A counted line, then an opener, then a line inside the comment that holds
\* code and a // marker.
C2_Witness ==
    /\ tool = "count_loc" /\ pc = "read"
    /\ Len(content) = 3
    /\ OpensUnclosedAt(content, 2)
    /\ NonBlank(content[1])
    /\ Occurs(LINE_COMMENT, content[3])
    /\ \E i \in 1..Len(content[3]) : content[3][i] = "a"
    /\ loc = 1 /\ in_comment_block = TRUE

\* ---- C3
\* C3: when a block comment is opened on line N with no code before it, is
\* not closed on lines N..M-1, and line M > N closes it with ordinary text
\* after the closer, then lines N..M-1 have added nothing, line M adds exactly
\* one, and in_comment_block is false after line M.
C3_ClosingLineWithCodeCountsOnce ==
    [][ \A N \in 1..Len(content) :
           (ReadsLine /\ ClosesWithCode(Last(content'))
               /\ OpensUnclosedAt(content, N))
           => /\ loc = NonBlankCount(SubSeq(content, 1, N - 1))
              /\ loc' = loc + 1
              /\ in_comment_block' = FALSE ]_vars

\* Opener on line 1, a line of text inside the comment, closer and code on
\* line 3: one line counted.
C3_Witness ==
    /\ tool = "count_loc" /\ pc = "read"
    /\ Len(content) = 3
    /\ OpensUnclosedAt(SubSeq(content, 1, 2), 1)
    /\ NonBlank(content[2])
    /\ ClosesWithCode(content[3])
    /\ loc = 1 /\ in_comment_block = FALSE

\* ---- C4
\* C4: when a line is scanned from outside a block comment and the text before
\* its first // holds no marker, the line adds one if that text is more than
\* whitespace and nothing otherwise, whatever follows the // (a /* included),
\* and in_comment_block is false when the next line starts.
C4_LineCommentDiscardsRest ==
    [][ (ReadsLine /\ ~in_comment_block
            /\ Occurs(LINE_COMMENT, Last(content'))
            /\ ~HasMarker(SubSeq(Last(content'), 1,
                                 FirstAt(LINE_COMMENT, Last(content')) - 1)))
        => /\ loc' = loc +
                 (IF NonBlank(SubSeq(Last(content'), 1,
                                 FirstAt(LINE_COMMENT, Last(content')) - 1))
                  THEN 1 ELSE 0)
           /\ in_comment_block' = FALSE ]_vars

\* "//*" (a comment only, with /* inside it: not counted, no comment opened),
\* then "a//" (code and a comment: counted).
C4_Witness ==
    /\ tool = "count_loc" /\ pc = "read"
    /\ content = << <<"/", "/", "*">>, <<"a", "/", "/">> >>
    /\ loc = 1 /\ in_comment_block = FALSE

\* ---- C5
\* C5: the comment flag does not leak between files: whatever the earlier
\* files were and however they ended, loc and in_comment_block after each line
\* of a file, and the count returned at its end, are those of scanning the
\* file's lines alone from loc = 0 and in_comment_block = false.
C5_NoLeakBetweenFiles ==
    [][ /\ (tool = "loc_report" /\ pc' = "read")
            => /\ loc' = ScanLines(content', 0, FALSE).loc
               /\ in_comment_block' = ScanLines(content', 0, FALSE).flag
        /\ (tool = "loc_report" /\ ReturnsAtEof)
            => Last(locs') = ScanLines(content, 0, FALSE).loc ]_vars

\* The first file ended inside an unterminated block comment, and the second
\* file, read without error, was counted.
C5_Witness ==
    /\ tool = "loc_report" /\ pc = "loop"
    /\ stderr = <<>>
    /\ Len(end_flags) = 2 /\ end_flags[1] = TRUE
    /\ locs[1] = 0 /\ locs[2] = 2

\* The violation lines printed to stderr, in the order printed.
ViolationListing == SelectSeq(stderr, LAMBDA e : e.kind = "violation")

\* The files whose reading raised IOError.
FailedFiles == {stderr[k].path : k \in {j \in 1..Len(stderr) :
                                           stderr[j].kind = "read_error"}}

\* ---- C6
\* C6: loc_report exits only after every file has been counted; a file is in
\* the violation list iff its count is strictly greater than the threshold
\* (with that count); the exit status is 1 iff the list is non-empty and 0
\* otherwise.
C6_StrictThresholdAndExitStatus ==
    /\ pc # "exit" => exit_status = -1
    /\ (tool = "loc_report" /\ pc = "exit") =>
          /\ file_idx = Len(all_files)
          /\ Len(locs) = Len(all_files)
          /\ \A k \in 1..Len(all_files) :
                /\ (\E j \in 1..Len(violating_files) :
                        violating_files[j][1] = all_files[k])
                   <=> locs[k] > threshold
                /\ \A j \in 1..Len(violating_files) :
                      violating_files[j][1] = all_files[k]
                      => violating_files[j][2] = locs[k]
          /\ Len(ViolationListing) = Len(violating_files)
          /\ exit_status = IF violating_files # <<>> THEN 1 ELSE 0

\* Threshold 1, one file with exactly 1 line (not a violation) and one with 2
\* (a violation): exit status 1.
C6_Witness ==
    /\ tool = "loc_report" /\ pc = "exit"
    /\ threshold = 1
    /\ locs = <<1, 2>>
    /\ violating_files = << <<2, 2>> >>
    /\ exit_status = 1

\* Position of the first occurrence of x in q (0 if absent).
FirstIndex(x, q) ==
    IF \E k \in 1..Len(q) : q[k] = x
    THEN CHOOSE k \in 1..Len(q) : q[k] = x /\ \A j \in 1..(k - 1) : q[j] # x
    ELSE 0

TableRows == SelectSeq(stdout, LAMBDA e : e.kind = "row")

\* ---- C7
\* C7: in loc_report's violation listing and in refine_candidates' table, a
\* record with a larger count precedes one with a smaller count, and records
\* with equal counts are in the order in which their paths were first
\* discovered (position in all_files; first occurrence in the git log).
C7_DescendingStableOrder ==
    /\ (tool = "loc_report" /\ pc = "exit") =>
          \A i, j \in 1..Len(ViolationListing) :
             i < j =>
                LET a == ViolationListing[i]
                    b == ViolationListing[j]
                IN  \/ a.loc > b.loc
                    \/ /\ a.loc = b.loc
                       /\ FirstIndex(a.path, all_files)
                             < FirstIndex(b.path, all_files)
    /\ (tool = "refine_candidates" /\ pc = "done") =>
          \A i, j \in 1..Len(TableRows) :
             i < j =>
                LET a == TableRows[i]
                    b == TableRows[j]
                IN  \/ a.count > b.count
                    \/ /\ a.count = b.count
                       /\ FirstIndex(a.file, modified_files)
                             < FirstIndex(b.file, modified_files)

\* A table of three rows with counts 2, 1, 1 whose first row was discovered
\* after the second: the sort moved it up and kept the tie in log order.
C7_Witness ==
    /\ tool = "refine_candidates" /\ pc = "done"
    /\ Len(TableRows) = 3
    /\ TableRows[1].count = 2
    /\ TableRows[2].count = 1
    /\ TableRows[3].count = 1
    /\ FirstIndex(TableRows[1].file, modified_files)
          > FirstIndex(TableRows[2].file, modified_files)

\* ---- C8
\* C8: when reading a file fails, count_loc returns 0 for it, whatever it had
\* counted before the failure, and the run goes on: main exits only after
\* every file has been given a count, a failed file has count 0, and the
\* violations and the exit status are decided from these counts.
C8_ReadFailureCountsZeroAndContinues ==
    [][ /\ ReturnsOnError
            => /\ Last(locs') = 0
               /\ Len(locs') = file_idx
               /\ exit_status' = -1
        /\ (tool' = "loc_report" /\ pc' = "exit")
            => /\ Len(locs') = Len(all_files')
               /\ \A f \in FailedFiles' : locs'[f] = 0
               /\ exit_status' =
                     IF \E k \in 1..Len(locs') : locs'[k] > threshold'
                     THEN 1 ELSE 0
               /\ \A k \in 1..Len(locs') :
                     locs'[k] > threshold' <=>
                        \E j \in 1..Len(ViolationListing') :
                           /\ ViolationListing'[j].path = all_files'[k]
                           /\ ViolationListing'[j].loc = locs'[k] ]_vars

\* Reading the first file failed after a line had been counted (loc is the
\* dead call's last value); the second file was then scanned and is the
\* violation that sets the exit status.
C8_Witness ==
    /\ tool = "loc_report" /\ pc = "exit"
    /\ FailedFiles = {1}
    /\ locs = <<0, 2>>
    /\ threshold = 1
    /\ exit_status = 1

\* Reading failed after a line had already been counted.
C8_WitnessDiscard ==
    /\ tool = "loc_report" /\ pc = "loop"
    /\ FailedFiles = {1}
    /\ loc = 2
    /\ locs = <<0>>

\* ---- C9
\* C9: for every path string of the git log, is_project_source_file accepts it
\* iff gather_source_files would include a file at that path.
C9_SameFilterAsLocReport ==
    (tool = "refine_candidates" /\ pc # "git") =>
       \A k \in 1..Len(modified_files) :
          is_project_source_file(modified_files[k])
          <=> Parts(modified_files[k])
                 \in gather_source_files({Parts(modified_files[k])})

Occurrences(x, q) == Cardinality({k \in 1..Len(q) : q[k] = x})

=============================================================================
